---- MODULE Spec2Model ----
(***************************************************************************)
(* Model of warp_journal/util.py: the port allocator (get_usable_port,     *)
(* is_port_in_use, panic), the game locator (get_game_path and its two     *)
(* platform variants) and the cache locator (get_cache_path,               *)
(* get_web_cache_path).                                                    *)
(*                                                                         *)
(* Four specifications share the variables:                                *)
(*   SpecPort  get_usable_port, run once or twice against the port range   *)
(*   SpecPath  get_game_path / get_cache_path on a platform, environment   *)
(*             and disk drawn from bounded sets                            *)
(*   SpecLog   get_game_path_windows on every bounded Player.log           *)
(*   SpecVer   get_web_cache_path on every bounded directory listing       *)
(***************************************************************************)
EXTENDS Integers, Sequences, FiniteSets, TLC

VARIABLES
    \* ---- port allocator --------------------------------------------------
    pc,          \* position in get_usable_port: "idle", "bind", "probe",
                 \* "returned", "exited" (sys.exit), "raised" (uncaught error)
    run,         \* 1 or 2: which invocation of get_usable_port this is
    port,        \* the loop variable of get_usable_port
    obs,         \* per candidate: the state the port was in when this run
                 \* examined it; Unseen while the run has not examined it
    prev,        \* obs of the first run, kept for the second
    changes,     \* lower candidates whose state differs from the first run
    tries,       \* per candidate: calls of is_port_in_use in this run
    result,      \* per run: the port returned, or None
    exc,         \* the exception that escaped get_usable_port, or "none"
    logged,      \* records handed to logging: <<level, message>>
    dialog,      \* messages handed to show_error_dialog
    exitStatus,  \* the status passed to sys.exit, or None
    \* ---- game and cache locator ------------------------------------------
    platform,    \* sys.platform
    gamePathEnv, \* os.environ['GAME_PATH'], or Unset
    userProfile, \* whether USERPROFILE is in os.environ
    logExists,   \* whether Player.log exists
    log,         \* the content of Player.log: a sequence of tokens
    configExists,\* whether the launcher's config.json exists
    config,      \* config.json as parsed
    disk,        \* the paths that exist on disk
    rootExists,  \* whether <game>/StarRail_Data/webCaches exists
    webCaches,   \* the listing of <game>/StarRail_Data/webCaches
    dataExists,  \* whether <version>/Cache/Cache_Data/data_2 exists
    copyOk,      \* whether the powershell Copy-Item succeeds (win32)
    op,          \* the function that was called, "idle" before the call
    ret          \* what the call produced: [kind, v]

portVars == <<pc, run, port, obs, prev, changes, tries, result, exc, logged,
              dialog, exitStatus>>
pathVars == <<platform, gamePathEnv, userProfile, logExists, log,
              configExists, config, disk, rootExists, webCaches, dataExists,
              copyOk, op, ret>>
vars == <<portVars, pathVars>>

None == "None"
Unset == "Unset"
Unseen == "unseen"

(***************************************************************************)
(* PORT ALLOCATOR                                                          *)
(***************************************************************************)

\* range(6193, 6193 + 10)
BasePort == 6193
PortCount == 10
Ports == BasePort .. (BasePort + PortCount - 1)
LastPort == BasePort + PortCount - 1

\* How many candidates below the first run's port may be in another state
\* when the second run examines them.
MaxEnvChanges == 1

(* What can hold a candidate port.  The occupant decides what bind and the
   HTTP probe do:
     free        nothing is bound: bind succeeds
     self        a Warp Journal instance: GET /warp-journal answers 2xx
     refused     bound but not accepting: the connection is refused
     http_error  an HTTP server that answers the path with 4xx/5xx
     silent      accepts the connection and never answers (read times out)
     garbage     accepts and answers something that is not HTTP, or closes *)
PortStates == {"free", "self", "refused", "http_error", "silent", "garbage"}
Foreign == {"refused", "http_error", "silent", "garbage"}

\* is_port_in_use: bind raises OSError exactly when the port is held.
is_port_in_use(s) == s # "free"

(* urlopen(f'http://localhost:{port}/warp-journal', timeout=0.1): "ok", or
   the class of the exception it raises.  urllib wraps errors of connecting
   and sending in URLError and raises HTTPError for a 4xx/5xx status; an
   error while reading the response (socket.timeout, http.client
   BadStatusLine / RemoteDisconnected) is raised as it is.  A port that
   nothing holds refuses the connection. *)
urlopen(s) ==
    CASE s = "self"       -> "ok"
      [] s = "free"       -> "URLError"
      [] s = "refused"    -> "URLError"
      [] s = "http_error" -> "HTTPError"
      [] s = "silent"     -> "TimeoutError"
      [] s = "garbage"    -> "HTTPException"

\* except (URLError, HTTPError)
Caught(e) == e \in {"URLError", "HTTPError"}

\* The probe's body with a successful answer skipped like a failed one.
OnProbeSkipSelf(e) == IF Caught(e) \/ e = "ok" THEN "continue" ELSE "raise"

\* The try statement around the probe: what get_usable_port does with it.
OnProbe(e) ==
    IF e = "ok" THEN "return" ELSE IF Caught(e) THEN "continue" ELSE "raise"

\* panic(message): log the error, show the dialog, log 'Quitting', sys.exit(1)
panic(message) ==
    /\ logged' = logged \o << <<"ERROR", message>>, <<"INFO", "Quitting">> >>
    /\ dialog' = Append(dialog, message)
    /\ exitStatus' = 1

NoPanic == UNCHANGED <<logged, dialog, exitStatus>>

(* The states the environment can present for candidate q when the run
   examines it.  In the first run: any.  In the second run the port the
   first run returned has the state chosen when the run started, a
   candidate below it keeps its state unless the budget of changes allows
   another, a candidate above it (never examined before) has any. *)
EnvChoices(q) ==
    IF obs[q] # Unseen THEN {obs[q]}
    ELSE IF prev[q] = Unseen THEN PortStates
    ELSE {prev[q]} \cup
         (IF changes < MaxEnvChanges THEN PortStates ELSE {})

\* for port in range(...): if not is_port_in_use(port): return port
Bind ==
    /\ pc = "bind"
    /\ \E s \in EnvChoices(port) :
        /\ obs' = [obs EXCEPT ![port] = s]
        /\ changes' = IF prev[port] \notin {Unseen, s} /\ obs[port] = Unseen
                      THEN changes + 1 ELSE changes
        /\ IF is_port_in_use(s)
           THEN pc' = "probe" /\ result' = result
           ELSE pc' = "returned" /\ result' = [result EXCEPT ![run] = port]
    /\ tries' = [tries EXCEPT ![port] = @ + 1]
    /\ NoPanic
    /\ UNCHANGED <<run, port, prev, exc, pathVars>>

\* try: with urlopen(...): return port / except (URLError, HTTPError):
\* continue; after the loop: panic('No suitable port found.')
Probe ==
    /\ pc = "probe"
    /\ LET e == urlopen(obs[port])
           todo == OnProbe(e)
       IN  /\ CASE todo = "return" ->
                     /\ pc' = "returned"
                     /\ result' = [result EXCEPT ![run] = port]
                     /\ NoPanic
                     /\ UNCHANGED <<port, exc>>
                [] todo = "continue" /\ port < LastPort ->
                     /\ pc' = "bind"
                     /\ port' = port + 1
                     /\ NoPanic
                     /\ UNCHANGED <<result, exc>>
                [] todo = "continue" /\ port = LastPort ->
                     /\ pc' = "exited"
                     /\ panic("No suitable port found.")
                     /\ UNCHANGED <<port, result, exc>>
                [] todo = "raise" ->
                     /\ pc' = "raised"
                     /\ exc' = e
                     /\ NoPanic
                     /\ UNCHANGED <<port, result>>
    /\ UNCHANGED <<run, obs, prev, changes, tries, pathVars>>

(* get_usable_port is called again after a run that returned a port.  By
   then the returned port is in a state of its own (the caller may have
   opened the service on it, or not), chosen here. *)
SecondRun ==
    /\ pc = "returned"
    /\ run = 1
    /\ \E s \in PortStates :
        obs' = [q \in Ports |-> IF q = result[1] THEN s ELSE Unseen]
    /\ prev' = obs
    /\ run' = 2
    /\ port' = BasePort
    /\ pc' = "bind"
    /\ tries' = [q \in Ports |-> 0]
    /\ NoPanic
    /\ UNCHANGED <<changes, result, exc, pathVars>>

PortIdle ==
    /\ pc = "idle"
    /\ run = 1
    /\ port = BasePort
    /\ obs = [q \in Ports |-> Unseen]
    /\ prev = [q \in Ports |-> Unseen]
    /\ changes = 0
    /\ tries = [q \in Ports |-> 0]
    /\ result = [r \in 1..2 |-> None]
    /\ exc = "none"
    /\ logged = << >>
    /\ dialog = << >>
    /\ exitStatus = None

PathIdle ==
    /\ platform = "linux"
    /\ gamePathEnv = Unset
    /\ userProfile = FALSE
    /\ logExists = FALSE
    /\ log = << >>
    /\ configExists = FALSE
    /\ config = << >>
    /\ disk = {}
    /\ rootExists = FALSE
    /\ webCaches = << >>
    /\ dataExists = FALSE
    /\ copyOk = FALSE
    /\ op = "idle"
    /\ ret = [kind |-> "None", v |-> None, via |-> "none"]

\* get_usable_port is entered: the loop starts at the base port.
Call ==
    /\ pc = "idle"
    /\ pc' = "bind"
    /\ UNCHANGED <<run, port, obs, prev, changes, tries, result, exc, logged,
                   dialog, exitStatus, pathVars>>

InitPort == PortIdle /\ PathIdle
NextPort == Call \/ Bind \/ Probe \/ SecondRun
SpecPort == InitPort /\ [][NextPort]_vars

Terminal == pc \in {"returned", "exited", "raised"}

(***************************************************************************)
(* GAME AND CACHE LOCATOR                                                  *)
(***************************************************************************)

\* What a call produces: a pathlib.Path, a str, None, or a raised exception.
\* via is the branch of get_game_path the value comes from.
PathVal(p, via) == [kind |-> "Path", v |-> p, via |-> via]
StrVal(s, via) == [kind |-> "str", v |-> s, via |-> via]
NoneVal(via) == [kind |-> "None", v |-> None, via |-> via]
Raise(e, via) == [kind |-> "raise", v |-> e, via |-> via]

\* Path.__truediv__
PathJoin(p, c) == p \o "/" \o c

\* The install directories the environment, the log and the configuration
\* can name.
StarRailDir == "/opt/games/StarRail"
OtherDir == "/g"
InstallDirs == {StarRailDir, OtherDir}

\* The disk: which of the install directories and their Games
\* subdirectories exist (a subdirectory only inside an existing directory).
DiskStates ==
    {d \in SUBSET (InstallDirs \cup {PathJoin(i, "Games") : i \in InstallDirs}) :
        \A i \in InstallDirs : PathJoin(i, "Games") \in d => i \in d}

Exists(p) == p \in disk

\* ---- Player.log ---------------------------------------------------------

(* Player.log as a sequence of tokens: the two literal parts of the pattern
   'Loading player data from (.+)/StarRail_Data/data.unity3d', a directory,
   and the line break. *)
Marker == "Loading player data from "
Suffix == "/StarRail_Data/data.unity3d"
NL == "\n"
LogTokens == {Marker, Suffix, StarRailDir, NL}

\* The longest Player.log of SpecLog, in tokens.
MaxLogLen == 7

Logs == UNION {[1..n -> LogTokens] : n \in 0..MaxLogLen}

RECURSIVE Concat(_)
Concat(s) == IF s = << >> THEN "" ELSE Head(s) \o Concat(Tail(s))

\* for line in fp: the text cut after each line break; text after the last
\* break is a line too.
RECURSIVE Lines(_)
Lines(text) ==
    IF text = << >> THEN << >>
    ELSE LET brk == {i \in 1..Len(text) : text[i] = NL}
         IN  IF brk = {} THEN <<text>>
             ELSE LET b == CHOOSE i \in brk : \A j \in brk : i <= j
                  IN  <<SubSeq(text, 1, b - 1)>> \o
                      Lines(SubSeq(text, b + 1, Len(text)))

(* regex.search(line): the leftmost Marker that a non-empty capture and a
   Suffix follow; (.+) is greedy, so the capture runs to the last Suffix of
   the line.  The match as [i, j], the places of Marker and Suffix. *)
Matches(line) ==
    {m \in [i : 1..Len(line), j : 1..Len(line)] :
        /\ line[m.i] = Marker
        /\ line[m.j] = Suffix
        /\ m.j >= m.i + 2}

Search(line) ==
    IF Matches(line) = {} THEN None
    ELSE LET m == CHOOSE m \in Matches(line) :
                     \A o \in Matches(line) :
                        m.i < o.i \/ (m.i = o.i /\ m.j >= o.j)
         IN  Concat(SubSeq(line, m.i + 1, m.j - 1))     \* match.group(1)

\* The loop with the last matching line winning instead of the first.
RECURSIVE ScanLogLast(_)
ScanLogLast(lines) ==
    IF lines = << >> THEN NoneVal("log")
    ELSE LET rest == ScanLogLast(Tail(lines))
         IN  IF rest.kind # "None" \/ Search(Head(lines)) = None THEN rest
             ELSE StrVal(Search(Head(lines)), "log")

\* for line in fp: match = regex.search(line); if match is not None:
\* return match.group(1) / return None
RECURSIVE ScanLog(_)
ScanLog(lines) ==
    IF lines = << >> THEN NoneVal("log")
    ELSE IF Search(Head(lines)) # None
         THEN StrVal(Search(Head(lines)), "log")
         ELSE ScanLog(Tail(lines))

get_game_path_windows ==
    IF ~userProfile THEN NoneVal("log")
    ELSE IF ~logExists THEN NoneVal("log")
    ELSE ScanLog(Lines(log))

\* ---- launcher configuration --------------------------------------------

(* config.json as parsed: a JSON object is a function on its keys.  The
   shapes: no "game", no "path", and a path object with any of "global" and
   "china", each naming an install directory. *)
EmptyObject == [k \in {} |-> None]
PathObjects == UNION {[ks -> InstallDirs] : ks \in SUBSET {"global", "china"}}
Configs ==
    {[game |-> [path |-> po]] : po \in PathObjects}
        \cup {[game |-> EmptyObject], [other |-> EmptyObject]}

HasKey(o, k) == k \in DOMAIN o

\* The two lookups with china looked up and tested first.
get_game_path_linux_china_first ==
    IF ~configExists THEN NoneVal("config")
    ELSE IF ~HasKey(config, "game") \/ ~HasKey(config["game"], "path")
         THEN NoneVal("config")
    ELSE LET paths == config["game"]["path"]
         IN  IF ~HasKey(paths, "china") THEN NoneVal("config")
             ELSE IF Exists(paths["china"])
                  THEN PathVal(paths["china"], "config")
             ELSE IF ~HasKey(paths, "global") THEN NoneVal("config")
             ELSE IF Exists(paths["global"])
                  THEN PathVal(paths["global"], "config")
             ELSE NoneVal("config")

\* The lookups with no test that the path exists.
get_game_path_linux_unchecked ==
    IF ~configExists THEN NoneVal("config")
    ELSE IF ~HasKey(config, "game") \/ ~HasKey(config["game"], "path")
         THEN NoneVal("config")
    ELSE LET paths == config["game"]["path"]
         IN  IF ~HasKey(paths, "global") THEN NoneVal("config")
             ELSE PathVal(paths["global"], "config")

\* try: config['game']['path']['global'] ... ['china'] / except KeyError
get_game_path_linux ==
    IF ~configExists THEN NoneVal("config")
    ELSE IF ~HasKey(config, "game") \/ ~HasKey(config["game"], "path")
         THEN NoneVal("config")                                  \* KeyError
    ELSE LET paths == config["game"]["path"]
         IN  IF ~HasKey(paths, "global") THEN NoneVal("config")  \* KeyError
             ELSE IF Exists(paths["global"])
                  THEN PathVal(paths["global"], "config")
             ELSE IF ~HasKey(paths, "china") THEN NoneVal("config")
             ELSE IF Exists(paths["china"])
                  THEN PathVal(paths["china"], "config")
             ELSE NoneVal("config")

\* ---- get_game_path ------------------------------------------------------

Platforms == {"win32", "linux", "darwin"}

\* The dispatch with the platform tested before the override.
get_game_path_platform_first ==
    IF platform = "win32" THEN get_game_path_windows
    ELSE IF platform = "linux" THEN get_game_path_linux
    ELSE IF gamePathEnv # Unset
         THEN LET sub_path == PathJoin(gamePathEnv, "Games")
              IN  IF Exists(sub_path) THEN PathVal(sub_path, "override")
                  ELSE PathVal(gamePathEnv, "override")
    ELSE NoneVal("none")

get_game_path ==
    IF gamePathEnv # Unset
    THEN LET sub_path == PathJoin(gamePathEnv, "Games")
         IN  IF Exists(sub_path) THEN PathVal(sub_path, "override")
             ELSE PathVal(gamePathEnv, "override")
    ELSE IF platform = "win32" THEN get_game_path_windows
    ELSE IF platform = "linux" THEN get_game_path_linux
    ELSE NoneVal("none")


\* ---- get_web_cache_path -------------------------------------------------

(* A directory name is a sequence of characters.  The version directories:
   two or more components joined by dots. *)
Components == {<<"1">>, <<"9">>, <<"1", "0">>}

\* The most components of a version directory's name.
MaxComponents == 2
\* The most entries of the webCaches directory.
MaxEntries == 2

RECURSIVE DotJoin(_)
DotJoin(cs) ==
    IF Len(cs) = 1 THEN cs[1] ELSE cs[1] \o <<".">> \o DotJoin(Tail(cs))

VersionNames ==
    {DotJoin(cs) : cs \in UNION {[1..n -> Components] : n \in 2..MaxComponents}}

\* A directory without a dot in its name, and a file with one.
PlainName == <<"1", "9">>
DottedFile == <<"9", ".", "9">>

Entries ==
    {[name |-> n, is_dir |-> TRUE] : n \in VersionNames \cup {PlainName}}
        \cup {[name |-> DottedFile, is_dir |-> FALSE]}

\* What iterdir can yield: entries of distinct names, in any order.
Listings ==
    {l \in UNION {[1..n -> Entries] : n \in 0..MaxEntries} :
        \A i, j \in DOMAIN l : i # j => l[i].name # l[j].name}

\* ord(c)
CharCode(c) ==
    CASE c = "." -> 46 [] c = "0" -> 48 [] c = "1" -> 49 [] c = "9" -> 57

\* str.split('.')
RECURSIVE Split(_)
Split(name) ==
    LET dots == {i \in 1..Len(name) : name[i] = "."}
    IN  IF dots = {} THEN <<name>>
        ELSE LET d == CHOOSE i \in dots : \A j \in dots : i <= j
             IN  <<SubSeq(name, 1, d - 1)>> \o
                 Split(SubSeq(name, d + 1, Len(name)))

\* str < str: by the first character that differs, a proper prefix first
RECURSIVE StrLess(_, _)
StrLess(a, b) ==
    IF b = << >> THEN FALSE
    ELSE IF a = << >> THEN TRUE
    ELSE IF Head(a) # Head(b) THEN CharCode(Head(a)) < CharCode(Head(b))
    ELSE StrLess(Tail(a), Tail(b))

\* list < list: by the first component that differs, a proper prefix first
RECURSIVE KeyLess(_, _)
KeyLess(k1, k2) ==
    IF k2 = << >> THEN FALSE
    ELSE IF k1 = << >> THEN TRUE
    ELSE IF Head(k1) # Head(k2) THEN StrLess(Head(k1), Head(k2))
    ELSE KeyLess(Tail(k1), Tail(k2))

\* key=lambda p: p.name.split('.')
SortKey(e) == Split(e.name)

\* list.sort(key=...) is stable: an element goes after those not greater.
RECURSIVE InsertByKey(_, _)
InsertByKey(sorted, e) ==
    IF sorted = << >> THEN <<e>>
    ELSE IF KeyLess(SortKey(e), SortKey(Head(sorted)))
         THEN <<e>> \o sorted
         ELSE <<Head(sorted)>> \o InsertByKey(Tail(sorted), e)

RECURSIVE SortByKey(_)
SortByKey(l) ==
    IF l = << >> THEN << >>
    ELSE InsertByKey(SortByKey(SubSeq(l, 1, Len(l) - 1)), l[Len(l)])

\* [p for p in web_caches.iterdir() if p.is_dir() and '.' in p.name]
IsVersion(e) == e.is_dir /\ \E i \in 1..Len(e.name) : e.name[i] = "."

RECURSIVE Versions(_)
Versions(l) ==
    IF l = << >> THEN << >>
    ELSE (IF IsVersion(Head(l)) THEN <<Head(l)>> ELSE << >>)
             \o Versions(Tail(l))

\* The selection with versions.sort(...) left out.
LatestUnsorted(versions) == versions[Len(versions)]

\* versions.sort(key=...); return versions[-1]
Latest(versions) == SortByKey(versions)[Len(versions)]

WebCachesDir(game) == PathJoin(game, "StarRail_Data/webCaches")

(* get_web_cache_path(game_path) on the listing l of the webCaches
   directory.  game_path / '...' needs a Path: on a str it raises
   TypeError.  iterdir on a missing directory raises FileNotFoundError. *)
get_web_cache_path(game_path, l) ==
    IF game_path.kind = "str" THEN Raise("TypeError", game_path.via)
    ELSE IF ~rootExists THEN Raise("FileNotFoundError", game_path.via)
    ELSE IF Versions(l) = << >> THEN NoneVal(game_path.via)
    ELSE PathVal(PathJoin(WebCachesDir(game_path.v),
                          Concat(Latest(Versions(l)).name)),
                 game_path.via)

\* ---- get_cache_path -----------------------------------------------------

CopyPath == "<data path>/data_2"

get_cache_path ==
    LET game_path == get_game_path
    IN  IF game_path.kind = "None" THEN NoneVal(game_path.via)
        ELSE LET web_cache_path == get_web_cache_path(game_path, webCaches)
             IN  IF web_cache_path.kind = "raise" THEN web_cache_path
                 ELSE IF web_cache_path.kind = "None"
                      THEN NoneVal(game_path.via)
                 ELSE LET path == PathJoin(web_cache_path.v,
                                           "Cache/Cache_Data/data_2")
                      IN  IF ~dataExists THEN NoneVal(game_path.via)
                          ELSE IF platform = "win32"
                               THEN IF copyOk
                                    THEN PathVal(CopyPath, game_path.via)
                                    ELSE NoneVal(game_path.via)
                          ELSE PathVal(path, game_path.via)

\* ---- the calls ----------------------------------------------------------

envVars == <<platform, gamePathEnv, userProfile, logExists, log,
             configExists, config, disk, rootExists, webCaches, dataExists,
             copyOk>>

CallGetGamePath ==
    /\ op = "idle"
    /\ op' = "get_game_path"
    /\ ret' = get_game_path
    /\ UNCHANGED <<envVars, portVars>>

CallGetCachePath ==
    /\ op = "idle"
    /\ op' = "get_cache_path"
    /\ ret' = get_cache_path
    /\ UNCHANGED <<envVars, portVars>>

CallGetGamePathWindows ==
    /\ op = "idle"
    /\ op' = "get_game_path_windows"
    /\ ret' = get_game_path_windows
    /\ UNCHANGED <<envVars, portVars>>

CallGetWebCachePath ==
    /\ op = "idle"
    /\ op' = "get_web_cache_path"
    /\ ret' = get_web_cache_path(PathVal(StarRailDir, "override"), webCaches)
    /\ UNCHANGED <<envVars, portVars>>

\* ---- the environments ---------------------------------------------------

\* Player.log of SpecPath: nothing that matches; the scenario's log; two
\* matching lines.
SampleLogs ==
    {<<StarRailDir, NL>>,
     <<StarRailDir, NL, Marker, StarRailDir, Suffix, NL>>,
     <<Marker, OtherDir, Suffix, NL, Marker, StarRailDir, Suffix>>}

\* webCaches of SpecPath: empty; no version directory; version directories
SampleListings ==
    {<< >>,
     <<[name |-> PlainName, is_dir |-> TRUE],
       [name |-> DottedFile, is_dir |-> FALSE]>>,
     <<[name |-> <<"9", ".", "1">>, is_dir |-> TRUE],
       [name |-> <<"1", "0", ".", "1">>, is_dir |-> TRUE]>>}

\* USERPROFILE, Player.log and its content: the log is at a path under
\* USERPROFILE, and has content only if it exists.
LogEnv(logs) ==
    /\ userProfile \in BOOLEAN
    /\ logExists \in (IF userProfile THEN BOOLEAN ELSE {FALSE})
    /\ log \in (IF logExists THEN logs ELSE {<< >>})

InitPath ==
    /\ PortIdle
    /\ op = "idle"
    /\ ret = NoneVal("none")
    /\ platform \in Platforms
    /\ gamePathEnv \in InstallDirs \cup {Unset}
    /\ LogEnv(SampleLogs)
    /\ configExists \in BOOLEAN
    /\ config \in (IF configExists THEN Configs ELSE {EmptyObject})
    /\ disk \in DiskStates
    \* webCaches lies in the game directory and data_2 in a version
    \* directory: neither exists without it
    /\ rootExists \in (IF get_game_path.kind # "None" /\ Exists(get_game_path.v)
                       THEN BOOLEAN ELSE {FALSE})
    /\ webCaches \in (IF rootExists THEN SampleListings ELSE {<< >>})
    /\ dataExists \in (IF Versions(webCaches) # << >>
                       THEN BOOLEAN ELSE {FALSE})
    /\ copyOk \in (IF platform = "win32" THEN BOOLEAN ELSE {FALSE})

NextPath == CallGetGamePath \/ CallGetCachePath
SpecPath == InitPath /\ [][NextPath]_vars

InitLog ==
    /\ PortIdle
    /\ op = "idle"
    /\ ret = NoneVal("none")
    /\ platform = "win32"
    /\ gamePathEnv = Unset
    /\ LogEnv(Logs)
    /\ configExists = FALSE
    /\ config = EmptyObject
    /\ disk = {}
    /\ rootExists = FALSE
    /\ webCaches = << >>
    /\ dataExists = FALSE
    /\ copyOk = FALSE

NextLog == CallGetGamePathWindows
SpecLog == InitLog /\ [][NextLog]_vars

InitVer ==
    /\ PortIdle
    /\ op = "idle"
    /\ ret = NoneVal("none")
    /\ platform = "linux"
    /\ gamePathEnv = StarRailDir
    /\ userProfile = FALSE
    /\ logExists = FALSE
    /\ log = << >>
    /\ configExists = FALSE
    /\ config = EmptyObject
    /\ disk = {StarRailDir}
    /\ rootExists = TRUE
    /\ webCaches \in Listings
    /\ dataExists = FALSE
    /\ copyOk = FALSE

NextVer == CallGetWebCachePath
SpecVer == InitVer /\ [][NextVer]_vars


(***************************************************************************)
(* Claims about the port allocator (checked under SpecPort).  A candidate  *)
(* the run never examined is Unseen: its state cannot change what the run  *)
(* does, so a run stands for every environment that agrees with obs on the *)
(* candidates examined.                                                    *)
(***************************************************************************)

\* The candidates 6193..6196 of the scenario of C1.
ScenarioBound == BasePort .. (BasePort + 3)
ScenarioFree == BasePort + 4

\* obs agrees with: 6193..6196 held by occupants that fail the probe, 6197 free
ScenarioEnv ==
    /\ \A q \in ScenarioBound : obs[q] \in Foreign \cup {Unseen}
    /\ obs[ScenarioFree] \in {"free", Unseen}

\* obs agrees with: all ten candidates held by occupants that fail the probe
AllForeignEnv == \A q \in Ports : obs[q] \in Foreign \cup {Unseen}

(* C1: get_usable_port returns the lowest candidate that is free or answers
   the probe, every candidate below it being held with a failed probe; with
   6193..6196 held by occupants that do not answer the probe and 6197 free
   it returns 6197. *)
C1_ReturnsLowestUsable ==
    /\ pc = "returned" =>
         /\ obs[result[run]] \in {"free", "self"}
         /\ \A q \in Ports : q < result[run] => obs[q] \in Foreign
    /\ (Terminal /\ ScenarioEnv) =>
         (pc = "returned" /\ result[run] = ScenarioFree)

(* C2: with all ten candidates held by occupants that do not answer the
   probe, the run ends in panic: the error is logged, the dialog invoked,
   the process exits with status 1, no port is returned, and each candidate
   was tried exactly once. *)
C2_ExhaustedRangePanics ==
    (Terminal /\ AllForeignEnv) =>
        /\ pc = "exited"
        /\ exitStatus = 1
        /\ result[run] = None
        /\ <<"ERROR", "No suitable port found.">> \in
               {logged[i] : i \in DOMAIN logged}
        /\ dialog = <<"No suitable port found.">>
        /\ \A q \in Ports : tries[q] = 1

(* C3, as stated: when the port the first run returned answers the probe as
   this application's service at the time of the second run, the second run
   returns the same port. *)
C3_SecondRunSamePort ==
    (run = 2 /\ Terminal /\ obs[result[1]] = "self") =>
        (pc = "returned" /\ result[2] = result[1])

(* C3, amended: ... and every candidate below that port is in the state it
   was in during the first run; then the second run returns the same port. *)
C3_SecondRunSamePortIfLowerUnchanged ==
    (/\ run = 2
     /\ Terminal
     /\ obs[result[1]] = "self"
     /\ \A q \in Ports : q < result[1] => obs[q] = prev[q]) =>
        (pc = "returned" /\ result[2] = result[1])

\* The second run came back to a port the first run found free, past held
\* candidates, the service now answering on it.
C3_Witness ==
    /\ run = 2
    /\ pc = "returned"
    /\ result[1] > BasePort
    /\ prev[result[1]] = "free"
    /\ obs[result[1]] = "self"
    /\ result[2] = result[1]

(* C8: at a held candidate every kind of probe failure makes the scan go on
   to the next candidate: the port is not returned, the process does not
   end and no error escapes. *)
C8_ProbeFailureContinues ==
    [][(pc = "probe" /\ urlopen(obs[port]) # "ok") =>
          /\ exc' = "none"
          /\ result' = result
          /\ port < LastPort => (pc' = "bind" /\ port' = port + 1)
      ]_vars

(***************************************************************************)
(* Claims about the game and cache locator.                                *)
(***************************************************************************)

(* C4 (SpecPath): with GAME_PATH set, get_game_path returns
   <override>/Games if that exists and the override itself otherwise, on
   every platform, whatever Player.log and config.json hold. *)
C4_OverrideWins ==
    (op = "get_game_path" /\ gamePathEnv # Unset) =>
        /\ ret.kind = "Path"
        /\ ret.via = "override"
        /\ ret.v = IF PathJoin(gamePathEnv, "Games") \in disk
                   THEN PathJoin(gamePathEnv, "Games")
                   ELSE gamePathEnv

\* The override was returned unmodified where the launcher configuration
\* names another, existing directory.
C4_Witness ==
    /\ op = "get_game_path"
    /\ gamePathEnv = OtherDir
    /\ platform = "linux"
    /\ get_game_path_linux.kind = "Path"
    /\ get_game_path_linux.v = StarRailDir
    /\ PathJoin(OtherDir, "Games") \notin disk
    /\ ret.v = OtherDir

\* config['game']['path'][k] raises no KeyError
Configured(k) ==
    /\ HasKey(config, "game")
    /\ HasKey(config["game"], "path")
    /\ HasKey(config["game"]["path"], k)

ConfiguredPath(k) == config["game"]["path"][k]

(* C5 (SpecPath): on linux with config.json present, get_game_path_linux
   returns the first of the configured global and china paths that exists,
   the china path when only it exists, and None when neither exists or a
   key it looks up is missing. *)
C5_FirstExistingConfiguredPath ==
    (op = "get_game_path" /\ gamePathEnv = Unset /\ platform = "linux"
         /\ configExists) =>
        /\ ret.via = "config"
        /\ ~Configured("global") => ret.kind = "None"
        /\ (Configured("global") /\ Exists(ConfiguredPath("global"))) =>
             (ret.kind = "Path" /\ ret.v = ConfiguredPath("global"))
        /\ (/\ Configured("global") /\ ~Exists(ConfiguredPath("global"))
            /\ Configured("china") /\ Exists(ConfiguredPath("china"))) =>
             (ret.kind = "Path" /\ ret.v = ConfiguredPath("china"))
        /\ (/\ Configured("global") /\ ~Exists(ConfiguredPath("global"))
            /\ ~(Configured("china") /\ Exists(ConfiguredPath("china")))) =>
             ret.kind = "None"

\* Only the china path exists on disk, and it was returned.
C5_Witness ==
    /\ op = "get_game_path"
    /\ gamePathEnv = Unset
    /\ platform = "linux"
    /\ configExists
    /\ Configured("global")
    /\ Configured("china")
    /\ ~Exists(ConfiguredPath("global"))
    /\ Exists(ConfiguredPath("china"))
    /\ ret.v = ConfiguredPath("china")

\* The version directories of a listing.
VersionSet(l) == {l[i] : i \in {j \in DOMAIN l : IsVersion(l[j])}}

\* The listing l in the order p.
Reordered(l, p) == [i \in DOMAIN l |-> l[p[i]]]

(* C6 (SpecVer): get_web_cache_path returns the version directory whose
   dot-split name is the greatest, component by component, and returns the
   same directory for every order in which the listing yields the
   entries. *)
C6_MaximumWhateverTheOrder ==
    (op = "get_web_cache_path" /\ VersionSet(webCaches) # {}) =>
        /\ \E v \in VersionSet(webCaches) :
             /\ \A w \in VersionSet(webCaches) \ {v} :
                    KeyLess(Split(w.name), Split(v.name))
             /\ ret.kind = "Path"
             /\ ret.v = PathJoin(WebCachesDir(StarRailDir), Concat(v.name))
        /\ \A p \in Permutations(DOMAIN webCaches) :
             get_web_cache_path(PathVal(StarRailDir, "override"),
                                Reordered(webCaches, p)) = ret

\* Two version directories, the greater one listed first, and it was
\* returned.
C6_Witness ==
    /\ op = "get_web_cache_path"
    /\ Len(Versions(webCaches)) = 2
    /\ KeyLess(Split(Versions(webCaches)[2].name),
               Split(Versions(webCaches)[1].name))
    /\ ret.v = PathJoin(WebCachesDir(StarRailDir),
                        Concat(Versions(webCaches)[1].name))

\* The lines of Player.log that match the pattern.
MatchingLines == {i \in DOMAIN Lines(log) : Search(Lines(log)[i]) # None}

(* C7 (SpecLog): when Player.log exists, get_game_path_windows returns the
   directory captured from the earliest matching line, whatever follows it,
   and None if no line matches; for one non-matching line followed by
   'Loading player data from /opt/games/StarRail/StarRail_Data/data.unity3d'
   it returns '/opt/games/StarRail'. *)
C7_EarliestMatchingLine ==
    (op = "get_game_path_windows" /\ logExists) =>
        /\ MatchingLines = {} => ret.kind = "None"
        /\ \A i \in MatchingLines :
             (\A j \in MatchingLines : i <= j) =>
                 (ret.kind = "str" /\ ret.v = Search(Lines(log)[i]))
        /\ log = <<StarRailDir, NL, Marker, StarRailDir, Suffix>> =>
             ret.v = "/opt/games/StarRail"

\* Two matching lines that capture different directories: the first one's
\* was returned.
C7_Witness ==
    /\ op = "get_game_path_windows"
    /\ logExists
    /\ \E i, j \in MatchingLines :
         /\ i < j
         /\ Search(Lines(log)[i]) # Search(Lines(log)[j])
         /\ \A k \in MatchingLines : i <= k
         /\ ret.v = Search(Lines(log)[i])

(* C9 (SpecPath): get_cache_path returns None, raising nothing, whenever
   the game directory is not found, the webCaches directory is missing or
   holds no directory with a dot in its name, or data_2 does not exist. *)
C9_AbsenceIsSoftMiss ==
    (/\ op = "get_cache_path"
     /\ \/ get_game_path.kind = "None"
        \/ ~rootExists
        \/ VersionSet(webCaches) = {}
        \/ ~dataExists) =>
        ret.kind = "None"

(* C10, as stated (SpecPath): every non-null result of get_game_path is a
   path that exists on disk. *)
C10_ResultExists ==
    (op = "get_game_path" /\ ret.kind # "None") => Exists(ret.v)

(* C10, amended: a non-null result that comes from the launcher
   configuration, or is the Games subdirectory of the override, exists on
   disk; the override itself and the directory captured from Player.log are
   returned unchecked. *)
C10_CheckedResultExists ==
    (/\ op = "get_game_path"
     /\ ret.kind # "None"
     /\ \/ ret.via = "config"
        \/ (ret.via = "override" /\ ret.v # gamePathEnv)) =>
        Exists(ret.v)

\* The launcher configuration named a missing global path and an existing
\* china path, which was returned.
C10_Witness ==
    /\ op = "get_game_path"
    /\ ret.via = "config"
    /\ ret.kind = "Path"
    /\ Configured("global")
    /\ ~Exists(ConfiguredPath("global"))
    /\ Exists(ret.v)

====
